---- MODULE Spec2Model ----
(***************************************************************************)
(* A model of app/fitness_advisor/service.py: the circle membership and    *)
(* ranking operations on one FitnessCircle, and the contextual             *)
(* notification selector.                                                  *)
(*                                                                         *)
(* Spec        the circle operations under a clock, each call atomic; no   *)
(*             caller stores a streak or points, so both stay 0.           *)
(* SpecRanks   the operations that write circle.members, with callers that *)
(*             store streaks and points in the members; the clock stands   *)
(*             still.                                                      *)
(* SpecNotify  one get_contextual_notification call after another, each    *)
(*             call split at its awaits.                                   *)
(* SpecChallenge  the circle operations with a caller that keeps the       *)
(*             challenge create_circle_challenge gave it.                  *)
(* SpecPromote the operations that add members and set ranks, under a      *)
(*             clock, with callers that store streaks and points.          *)
(* SpecBoard   get_circle_leaderboard on every small member list.          *)
(* SpecEnhance get_contextual_notification_with_circle on small circles.   *)
(* SpecRace    join_circle as two steps, checks and append, of two callers  *)
(*             with no mutual exclusion.                                   *)
(* SpecNoPromote  the operations that write circle.members, without        *)
(*             promote_member_rank.                                        *)
(*                                                                         *)
(* Fields of the pydantic models that no operation reads or branches on    *)
(* (fitness_goal and location of a member, title, description, tags ...)   *)
(* are left out of the records.                                            *)
(***************************************************************************)
EXTENDS Integers, Sequences, FiniteSets, TLC

VARIABLES
    circle,          \* the FitnessCircle under observation, or None before it is created
    circles_joined,  \* profile.circles_joined of every profile, by profile.name
    now,             \* datetime.now(), a logical timestamp
    last,            \* the most recent call: its name and what it returned
    challenge,       \* a CircleChallenge its creator holds on to, or None
    joining,         \* per caller: the profile of its join_circle call that has
                     \* passed the checks and not yet appended, or None
    pc,              \* where the current get_contextual_notification call is
    profile,         \* its profile argument (the fields it reads)
    tracking,        \* its tracking argument
    clock,           \* datetime.now().time(), minutes since midnight
    step_time,       \* current_time of check_step_progress
    meal_time,       \* current_time of check_meal_logging
    evaluated,       \* the rules and the fallback evaluated so far in this call, in order
    result           \* what the call returned

circle_vars == <<circle, circles_joined, now, last, challenge, joining>>
notify_vars == <<pc, profile, tracking, clock, step_time, meal_time, evaluated, result>>
vars == <<circle, circles_joined, now, last, challenge, joining,
          pc, profile, tracking, clock, step_time, meal_time, evaluated, result>>

(***************************************************************************)
(* Bounds of the model.                                                    *)
(***************************************************************************)
\* the largest max_members a circle is created with
MaxCapacity == 2
\* the largest value of the logical clock
MaxNow == 1
\* most members of a circle handed to get_circle_leaderboard
MaxBoard == 3

\* profile names; a profile's name is its user id
Users == {"ada", "bo"}
\* an id no profile carries
Stranger == "zed"
\* the concurrent callers of join_circle
Callers == {"caller-1", "caller-2"}

(***************************************************************************)
(* models.py                                                               *)
(***************************************************************************)
FOLLOWER == "follower"
MEMBER == "member"
LEADER == "leader"
INFLUENCER == "influencer"
COMMUNITY_INFLUENCER == "community_influencer"
BIG_INFLUENCER == "big_influencer"

\* the enum, in declaration order
CircleRank == <<FOLLOWER, MEMBER, LEADER, INFLUENCER, COMMUNITY_INFLUENCER, BIG_INFLUENCER>>

Ranks == {CircleRank[i] : i \in DOMAIN CircleRank}

\* Optional[...] = None
None == [kind |-> "None"]

\* CircleMember as built by the service: current_streak and total_points
\* take their defaults
CircleMember(user_id, rank, last_active, is_online) ==
    [user_id |-> user_id, name |-> user_id, rank |-> rank,
     current_streak |-> 0, total_points |-> 0,
     last_active |-> last_active, is_online |-> is_online]

(***************************************************************************)
(* service.py: helpers of the circle operations                            *)
(***************************************************************************)
\* the literal list [INFLUENCER, COMMUNITY_INFLUENCER, BIG_INFLUENCER]
InfluencerTiers == {INFLUENCER, COMMUNITY_INFLUENCER, BIG_INFLUENCER}

\* the literal list [LEADER, INFLUENCER, COMMUNITY_INFLUENCER, BIG_INFLUENCER]
PrivilegedRanks == {LEADER, INFLUENCER, COMMUNITY_INFLUENCER, BIG_INFLUENCER}

\* [member.user_id for member in circle.members]
MemberIds(c) == [i \in DOMAIN c.members |-> c.members[i].user_id]

\* x in list
InList(x, list) == \E i \in DOMAIN list : list[i] = x

\* the lookup with the first member as its default
FindMember_or_first(c, user_id) ==
    IF \E i \in DOMAIN c.members : c.members[i].user_id = user_id
    THEN CHOOSE i \in DOMAIN c.members :
            /\ c.members[i].user_id = user_id
            /\ \A j \in DOMAIN c.members : c.members[j].user_id = user_id => i <= j
    ELSE 1

\* next((m for m in circle.members if m.user_id == user_id), None), as the
\* index of the member found, 0 for None
FindMember(c, user_id) ==
    IF \E i \in DOMAIN c.members : c.members[i].user_id = user_id
    THEN CHOOSE i \in DOMAIN c.members :
            /\ c.members[i].user_id = user_id
            /\ \A j \in DOMAIN c.members : c.members[j].user_id = user_id => i <= j
    ELSE 0

\* the creator entered with the rank its profile carries
CreatorRank_of_profile(circle_rank) == circle_rank

\* creator_rank of create_fitness_circle
CreatorRank(circle_rank) ==
    IF circle_rank \in InfluencerTiers THEN LEADER ELSE MEMBER

\* len(circle.members) >= circle.max_members
CircleFull(c) == Len(c.members) >= c.max_members

\* profile.name in circle.members: a str is never equal to a CircleMember
AlreadyMember_among_objects(c, name) == FALSE

\* profile.name in [member.user_id for member in circle.members]
AlreadyMember(c, name) == InList(name, MemberIds(c))

\* initial_rank with the profile's own rank for a profile of an influencer tier
InitialRank_of_profile(circle_rank) ==
    IF circle_rank \in InfluencerTiers THEN circle_rank ELSE FOLLOWER

\* initial_rank of join_circle
InitialRank(circle_rank) ==
    IF circle_rank \in InfluencerTiers THEN MEMBER ELSE FOLLOWER

(***************************************************************************)
(* service.py: the circle operations                                       *)
(***************************************************************************)
\* a FitnessProfile argument: the fields the circle operations read
Profiles == [name : Users, circle_rank : Ranks]

\* the profiles handed to the operations that read profile.name alone: one
\* that carries the lowest rank and one that carries the highest
Actors == {[name |-> "ada", circle_rank |-> FOLLOWER],
           [name |-> "bo", circle_rank |-> BIG_INFLUENCER]}

\* circle_id of the circle; uuid4 makes it unlike any other
TheCircleId == "circle-1"

\* create_fitness_circle(creator_profile, ..., max_members, ...): the creator
\* is appended whatever max_members is
create_fitness_circle(creator_profile, max_members) ==
    /\ circle = None
    /\ circle' = [kind |-> "FitnessCircle",
                  circle_id |-> TheCircleId,
                  created_by |-> creator_profile.name,
                  max_members |-> max_members,
                  created_at |-> now,
                  last_activity |-> now,
                  members |-> <<CircleMember(creator_profile.name,
                                             CreatorRank(creator_profile.circle_rank),
                                             now, TRUE)>>]
    /\ circles_joined' = [circles_joined EXCEPT
                            ![creator_profile.name] = Append(@, TheCircleId)]
    /\ last' = [op |-> "create_fitness_circle"]
    /\ UNCHANGED now

\* join_circle with the circle entered in profile.circles_joined before the
\* checks
join_circle_listing_first(p) ==
    /\ circle # None
    /\ circles_joined' = [circles_joined EXCEPT ![p.name] = Append(@, circle.circle_id)]
    /\ IF CircleFull(circle) \/ AlreadyMember(circle, p.name)
       THEN /\ last' = [op |-> "join_circle", ret |-> FALSE]
            /\ UNCHANGED circle
       ELSE /\ circle' = [circle EXCEPT
                            !.members = Append(@, CircleMember(p.name,
                                                   InitialRank(p.circle_rank), now, TRUE)),
                            !.last_activity = now]
            /\ last' = [op |-> "join_circle", ret |-> TRUE]
    /\ UNCHANGED now

\* join_circle(profile, circle)
join_circle(p) ==
    /\ circle # None
    /\ IF CircleFull(circle)
       THEN /\ last' = [op |-> "join_circle", ret |-> FALSE]
            /\ UNCHANGED <<circle, circles_joined>>
       ELSE IF AlreadyMember(circle, p.name)
       THEN /\ last' = [op |-> "join_circle", ret |-> FALSE]
            /\ UNCHANGED <<circle, circles_joined>>
       ELSE /\ circle' = [circle EXCEPT
                            !.members = Append(@, CircleMember(p.name,
                                                   InitialRank(p.circle_rank), now, TRUE)),
                            !.last_activity = now]
            /\ circles_joined' = [circles_joined EXCEPT ![p.name] = Append(@, circle.circle_id)]
            /\ last' = [op |-> "join_circle", ret |-> TRUE]
    /\ UNCHANGED now

\* join_circle of caller k up to its second return: the two checks, with
\* nothing written yet
JoinChecks(k, p) ==
    /\ circle # None
    /\ joining[k] = None
    /\ IF CircleFull(circle) \/ AlreadyMember(circle, p.name)
       THEN /\ last' = [op |-> "join_circle", ret |-> FALSE]
            /\ UNCHANGED joining
       ELSE /\ last' = [op |-> "join_circle_checks"]
            /\ joining' = [joining EXCEPT ![k] = p]
    /\ UNCHANGED <<circle, circles_joined, now>>

\* the rest of join_circle of caller k: the member is built and appended
\* to whatever circle.members is by now
JoinAppends(k) ==
    /\ circle # None
    /\ joining[k] # None
    /\ LET p == joining[k] IN
       /\ circle' = [circle EXCEPT
                        !.members = Append(@, CircleMember(p.name,
                                               InitialRank(p.circle_rank), now, TRUE)),
                        !.last_activity = now]
       /\ circles_joined' = [circles_joined EXCEPT ![p.name] = Append(@, circle.circle_id)]
    /\ last' = [op |-> "join_circle", ret |-> TRUE]
    /\ joining' = [joining EXCEPT ![k] = None]
    /\ UNCHANGED now

\* a promotion that never lowers the rank
promote_member_rank_upward_only(member_id, new_rank) ==
    /\ circle # None
    /\ LET i == FindMember(circle, member_id)
           index(rank) == CHOOSE k \in DOMAIN CircleRank : CircleRank[k] = rank
       IN
       IF i = 0
       THEN /\ last' = [op |-> "promote_member_rank", ret |-> FALSE]
            /\ UNCHANGED circle
       ELSE /\ circle' = [circle EXCEPT
                            !.members[i].rank =
                                IF index(new_rank) > index(@) THEN new_rank ELSE @,
                            !.last_activity = now]
            /\ last' = [op |-> "promote_member_rank", ret |-> TRUE]
    /\ UNCHANGED <<circles_joined, now>>

\* promote_member_rank(circle, member_id, new_rank)
promote_member_rank(member_id, new_rank) ==
    /\ circle # None
    /\ LET i == FindMember(circle, member_id) IN
       IF i = 0
       THEN /\ last' = [op |-> "promote_member_rank", ret |-> FALSE]
            /\ UNCHANGED circle
       ELSE /\ circle' = [circle EXCEPT !.members[i].rank = new_rank,
                                        !.last_activity = now]
            /\ last' = [op |-> "promote_member_rank", ret |-> TRUE]
    /\ UNCHANGED <<circles_joined, now>>

\* service.py:304
StreakThreshold == 7
\* service.py:306
PointsThreshold == 1000

\* the promotion logic with current_streak > 7
PromotedRank_streak_over_7(member) ==
    IF member.current_streak > StreakThreshold /\ member.rank = FOLLOWER
    THEN MEMBER
    ELSE IF member.total_points >= PointsThreshold /\ member.rank = MEMBER
    THEN LEADER
    ELSE member.rank

\* the promotion logic with a decay: a Member whose streak is broken is a
\* Follower again
PromotedRank_with_decay(member) ==
    IF member.current_streak >= StreakThreshold /\ member.rank = FOLLOWER
    THEN MEMBER
    ELSE IF member.total_points >= PointsThreshold /\ member.rank = MEMBER
    THEN LEADER
    ELSE IF member.current_streak = 0 /\ member.rank = MEMBER
    THEN FOLLOWER
    ELSE member.rank

\* the promotion logic with an if for the elif: a Follower with the streak
\* and the points is a Leader after one call
PromotedRank_two_ifs(member) ==
    LET first == IF member.current_streak >= StreakThreshold /\ member.rank = FOLLOWER
                 THEN MEMBER ELSE member.rank
    IN IF member.total_points >= PointsThreshold /\ first = MEMBER
       THEN LEADER ELSE first

\* the "simple promotion logic" of update_member_progress: the rank the
\* member has after it
PromotedRank(member) ==
    IF member.current_streak >= StreakThreshold /\ member.rank = FOLLOWER
    THEN MEMBER
    ELSE IF member.total_points >= PointsThreshold /\ member.rank = MEMBER
    THEN LEADER
    ELSE member.rank

\* update_member_progress(circle, member_id, steps_taken, calories_consumed,
\* workouts_completed): the three counts are not read
update_member_progress(member_id) ==
    /\ circle # None
    /\ LET i == FindMember(circle, member_id) IN
       IF i = 0
       THEN /\ last' = [op |-> "update_member_progress", ret |-> FALSE]
            /\ UNCHANGED circle
       ELSE /\ circle' = [circle EXCEPT
                            !.members[i] = [@ EXCEPT !.last_active = now,
                                                     !.is_online = TRUE,
                                                     !.rank = PromotedRank(circle.members[i])],
                            !.last_activity = now]
            /\ last' = [op |-> "update_member_progress", ret |-> TRUE]
    /\ UNCHANGED <<circles_joined, now>>

\* the streaks and the points a caller may have stored in a member
StreakValues == {0, StreakThreshold}
PointValues == {0, PointsThreshold}

\* current_streak and total_points are plain fields of CircleMember that no
\* function of the service writes: the caller maintains them
set_member_stats(i, current_streak, total_points) ==
    /\ circle # None
    /\ i \in DOMAIN circle.members
    /\ circle' = [circle EXCEPT !.members[i].current_streak = current_streak,
                                !.members[i].total_points = total_points]
    /\ last' = [op |-> "set_member_stats"]
    /\ UNCHANGED <<circles_joined, now>>

\* time passes between two calls
Tick ==
    /\ now < MaxNow
    /\ now' = now + 1
    /\ last' = [op |-> "tick"]
    /\ UNCHANGED <<circle, circles_joined>>

(***************************************************************************)
(* service.py: the gated constructors                                      *)
(***************************************************************************)
\* the permission check with the list of create_influencer_post, which
\* leaves the Leader out
MayLead_influencers_only(c, i) == i # 0 /\ c.members[i].rank \in InfluencerTiers

\* the permission check of create_circle_challenge and of
\* initiate_accountability_check, on the index FindMember returned
MayLead(c, i) == i # 0 /\ c.members[i].rank \in PrivilegedRanks

\* the challenge with its creator as the one participant
CircleChallenge_creator_only(creator_profile, c) ==
    IF ~MayLead(c, FindMember(c, creator_profile.name))
    THEN None
    ELSE [kind |-> "CircleChallenge",
          circle_id |-> c.circle_id,
          created_by |-> creator_profile.name,
          start_date |-> now,
          participants |-> <<creator_profile.name>>]

CircleChallenge(creator_profile, c) ==
    IF ~MayLead(c, FindMember(c, creator_profile.name))
    THEN None
    ELSE [kind |-> "CircleChallenge",
          circle_id |-> c.circle_id,
          created_by |-> creator_profile.name,
          start_date |-> now,
          participants |-> MemberIds(c)]

create_circle_challenge(creator_profile) ==
    /\ circle # None
    /\ last' = [op |-> "create_circle_challenge",
                ret |-> CircleChallenge(creator_profile, circle)]
    /\ UNCHANGED <<circle, circles_joined, now>>

\* the lists of target ids a caller asks a check for
TargetLists == {<< >>, <<Stranger>>, <<"bo", "ada">>, <<"ada", Stranger>>}

\* the requested ids taken as they are
ValidTargets_unfiltered(c, target_members) == target_members

\* valid_targets of initiate_accountability_check
ValidTargets(c, target_members) ==
    SelectSeq(MemberIds(c), LAMBDA id : InList(id, target_members))

\* initiate_accountability_check(initiator_profile, circle, target_members,
\* ...): what it returns
AccountabilityCheck(initiator_profile, c, target_members) ==
    IF ~MayLead(c, FindMember(c, initiator_profile.name))
    THEN None
    ELSE [kind |-> "AccountabilityCheck",
          circle_id |-> c.circle_id,
          initiated_by |-> initiator_profile.name,
          target_members |-> ValidTargets(c, target_members),
          created_at |-> now]

initiate_accountability_check(initiator_profile, target_members) ==
    /\ circle # None
    /\ last' = [op |-> "initiate_accountability_check",
                ret |-> AccountabilityCheck(initiator_profile, circle, target_members)]
    /\ UNCHANGED <<circle, circles_joined, now>>

\* the permission check of create_influencer_post: it reads the rank the
\* profile carries, and does not look the profile up in the circle
MayPost(influencer_profile, c) == influencer_profile.circle_rank \in InfluencerTiers

\* create_influencer_post(influencer_profile, circle, ...): what it returns
InfluencerPost(influencer_profile, c) ==
    IF ~MayPost(influencer_profile, c)
    THEN None
    ELSE [kind |-> "InfluencerPost",
          influencer_id |-> influencer_profile.name,
          circle_id |-> c.circle_id,
          created_at |-> now]

create_influencer_post(influencer_profile) ==
    /\ circle # None
    /\ last' = [op |-> "create_influencer_post",
                ret |-> InfluencerPost(influencer_profile, circle)]
    /\ UNCHANGED <<circle, circles_joined, now>>

(***************************************************************************)
(* service.py: the leaderboard                                             *)
(***************************************************************************)
\* the key of total_points alone
SortKey_points_only(x) == <<x.total_points, 0>>

\* key=lambda x: (x.total_points, x.current_streak)
SortKey(x) == <<x.total_points, x.current_streak>>

\* a < b on tuples of two integers, as Python compares them
TupleLess(a, b) == a[1] < b[1] \/ (a[1] = b[1] /\ a[2] < b[2])

RECURSIVE InsertDescending(_, _)
\* x put into the descending list s behind every element whose key is not
\* less than x's: behind its equals
InsertDescending(x, s) ==
    IF s = << >> THEN <<x>>
    ELSE IF TupleLess(SortKey(Head(s)), SortKey(x)) THEN <<x>> \o s
    ELSE <<Head(s)>> \o InsertDescending(x, Tail(s))

RECURSIVE InsertAscending(_, _)
\* x put into the ascending list s behind every element whose key is not
\* greater than x's
InsertAscending(x, s) ==
    IF s = << >> THEN <<x>>
    ELSE IF TupleLess(SortKey(x), SortKey(Head(s))) THEN <<x>> \o s
    ELSE <<Head(s)>> \o InsertAscending(x, Tail(s))

RECURSIVE Leaderboard_ascending(_)
\* the sort without reverse=True
Leaderboard_ascending(members) ==
    IF members = << >> THEN << >>
    ELSE InsertAscending(members[Len(members)],
                         Leaderboard_ascending(SubSeq(members, 1, Len(members) - 1)))

RECURSIVE Leaderboard(_)
\* sorted(members, key=..., reverse=True): a new list, descending by key;
\* elements of equal keys keep the order they have in members (sorted is
\* stable, with reverse=True as well)
Leaderboard(members) ==
    IF members = << >> THEN << >>
    ELSE InsertDescending(members[Len(members)],
                          Leaderboard(SubSeq(members, 1, Len(members) - 1)))

\* get_circle_leaderboard(circle)
get_circle_leaderboard ==
    /\ circle # None
    /\ last' = [op |-> "get_circle_leaderboard", ret |-> Leaderboard(circle.members)]
    /\ UNCHANGED <<circle, circles_joined, now>>

(***************************************************************************)
(* models.py: what the notification selector reads and builds              *)
(***************************************************************************)
\* Optional[time] = None of DailyTracking.current_time
NoTime == -1

\* datetime.time(hour, minute), in minutes since midnight
Time(hour, minute) == hour * 60 + minute

HEALTHY_LIVING == "healthy_living"
WEIGHT_GAIN == "weight_gain"
WEIGHT_LOSS == "weight_loss"
MUSCLE_GAIN == "muscle_gain"
STRENGTH == "strength"
FitnessGoal == {HEALTHY_LIVING, WEIGHT_GAIN, WEIGHT_LOSS, MUSCLE_GAIN, STRENGTH}

STEP_REMINDER == "step_reminder"
MEAL_REMINDER == "meal_reminder"
CALORIE_WARNING == "calorie_warning"
HYDRATION_REMINDER == "hydration_reminder"

BehavioralNotification(notification_type, message, urgency, context, suggested_action) ==
    [kind |-> "BehavioralNotification",
     notification_type |-> notification_type,
     message |-> message,
     urgency |-> urgency,
     context |-> context,
     suggested_action |-> suggested_action]

(***************************************************************************)
(* service.py: the notification rules.  A message is modelled by the       *)
(* sentence it is and the values formatted into it.                        *)
(***************************************************************************)
\* tracking.current_time or datetime.now().time(): a time object is always
\* true, midnight included, so only None falls through to the clock
EffectiveTime(t, wall) == IF t.current_time # NoTime THEN t.current_time ELSE wall

\* service.py:369
LowSteps == 2000

\* check_step_progress with "after noon" for "from noon on": current_time >
\* time(12, 0)
check_step_progress_after_noon(p, t, current_time) ==
    IF current_time > Time(12, 0) /\ t.steps_taken < LowSteps
    THEN BehavioralNotification(
            STEP_REMINDER,
            <<"Only {} steps by noon! You need {} more steps to reach your {} goal.",
              t.steps_taken, t.steps_goal - t.steps_taken, t.steps_goal>>,
            "high",
            [steps_taken |-> t.steps_taken, steps_goal |-> t.steps_goal,
             time |-> current_time],
            "Take a 30-minute walk or break up movement throughout the day")
    ELSE None

\* check_step_progress(profile, tracking), current_time being the effective
\* time it read
check_step_progress(p, t, current_time) ==
    LET steps_remaining == t.steps_goal - t.steps_taken IN
    IF current_time >= Time(12, 0) /\ t.steps_taken < LowSteps
    THEN BehavioralNotification(
            STEP_REMINDER,
            <<"Only {} steps by noon! You need {} more steps to reach your {} goal.",
              t.steps_taken, steps_remaining, t.steps_goal>>,
            "high",
            [steps_taken |-> t.steps_taken, steps_goal |-> t.steps_goal,
             time |-> current_time],
            "Take a 30-minute walk or break up movement throughout the day")
    ELSE None

\* check_meal_logging with the lunch check ahead of the breakfast check
check_meal_logging_lunch_first(p, t, current_time) ==
    IF current_time >= Time(14, 0) /\ ~InList("lunch", t.meals_logged)
    THEN BehavioralNotification(
            MEAL_REMINDER,
            <<"Time for lunch!">>,
            "medium",
            [meals_logged |-> t.meals_logged, time |-> current_time],
            "Log your lunch or plan a healthy meal")
    ELSE IF current_time >= Time(10, 0) /\ ~InList("breakfast", t.meals_logged)
    THEN BehavioralNotification(
            MEAL_REMINDER,
            <<"Haven't logged breakfast yet?">>,
            "medium",
            [meals_logged |-> t.meals_logged, time |-> current_time],
            "Log your breakfast or plan your next meal")
    ELSE None

\* check_meal_logging with the lunch check from noon on
check_meal_logging_lunch_at_noon(p, t, current_time) ==
    IF current_time >= Time(10, 0) /\ ~InList("breakfast", t.meals_logged)
    THEN BehavioralNotification(
            MEAL_REMINDER,
            <<"Haven't logged breakfast yet?">>,
            "medium",
            [meals_logged |-> t.meals_logged, time |-> current_time],
            "Log your breakfast or plan your next meal")
    ELSE IF current_time >= Time(12, 0) /\ ~InList("lunch", t.meals_logged)
    THEN BehavioralNotification(
            MEAL_REMINDER,
            <<"Time for lunch!">>,
            "medium",
            [meals_logged |-> t.meals_logged, time |-> current_time],
            "Log your lunch or plan a healthy meal")
    ELSE None

\* check_meal_logging(profile, tracking), current_time being the effective
\* time it read
check_meal_logging(p, t, current_time) ==
    IF current_time >= Time(10, 0) /\ ~InList("breakfast", t.meals_logged)
    THEN BehavioralNotification(
            MEAL_REMINDER,
            <<"Haven't logged breakfast yet?">>,
            "medium",
            [meals_logged |-> t.meals_logged, time |-> current_time],
            "Log your breakfast or plan your next meal")
    ELSE IF current_time >= Time(14, 0) /\ ~InList("lunch", t.meals_logged)
    THEN BehavioralNotification(
            MEAL_REMINDER,
            <<"Time for lunch!">>,
            "medium",
            [meals_logged |-> t.meals_logged, time |-> current_time],
            "Log your lunch or plan a healthy meal")
    ELSE None

\* the comparison with >= for >
OverEightyPercent_or_equal(calories_consumed, calories_goal) ==
    5 * calories_consumed >= 4 * calories_goal

\* calories_consumed > calories_goal * 0.8: the product is a float, and for
\* integers the comparison is that of 5 * consumed with 4 * goal
OverEightyPercent(calories_consumed, calories_goal) ==
    5 * calories_consumed > 4 * calories_goal

\* check_calorie_progress(profile, tracking)
check_calorie_progress(p, t) ==
    LET calories_remaining == t.calories_goal - t.calories_consumed IN
    IF /\ p.fitness_goal = WEIGHT_LOSS
       /\ OverEightyPercent(t.calories_consumed, t.calories_goal)
    THEN BehavioralNotification(
            CALORIE_WARNING,
            <<"You've consumed {} calories today. Only {} calories left.",
              t.calories_consumed, calories_remaining>>,
            "high",
            [calories_consumed |-> t.calories_consumed,
             calories_goal |-> t.calories_goal],
            "Choose lower-calorie options for remaining meals")
    ELSE None

\* what behavioral_agent.run may hand back: a notification of the model's
\* own wording
GeneratedNotifications ==
    {BehavioralNotification(ty, <<"generated">>, u, [generated |-> TRUE], "generated")
        : ty \in {MEAL_REMINDER, HYDRATION_REMINDER}, u \in {"medium"}}

(***************************************************************************)
(* service.py: get_contextual_notification, one step per await             *)
(***************************************************************************)
\* the times of day the clock shows and a tracking carries
TimeSamples == <<Time(9, 59), Time(10, 0), Time(11, 59), Time(12, 0),
                 Time(13, 59), Time(14, 0)>>
Times == {TimeSamples[i] : i \in DOMAIN TimeSamples}

StepSamples == {0, LowSteps - 1, LowSteps}
MealLists == {<< >>, <<"breakfast">>, <<"lunch">>, <<"breakfast", "lunch">>}
\* <<calories_consumed, calories_goal>>
CalorieSamples == {<<0, 0>>, <<1, 0>>, <<1200, 1500>>, <<1201, 1500>>}

\* the fields of a FitnessProfile the selector reads
NotifyProfiles == [fitness_goal : FitnessGoal]

\* the DailyTracking snapshots
Trackings ==
    {[steps_taken |-> st, steps_goal |-> 10000,
      calories_consumed |-> c[1], calories_goal |-> c[2],
      meals_logged |-> ml, current_time |-> ct]
        : st \in StepSamples, c \in CalorieSamples, ml \in MealLists,
          ct \in Times \cup {NoTime}}

\* a caller calls get_contextual_notification(profile, tracking)
get_contextual_notification(p, t) ==
    /\ pc = "idle"
    /\ pc' = "step"
    /\ profile' = p
    /\ tracking' = t
    /\ step_time' = NoTime
    /\ meal_time' = NoTime
    /\ evaluated' = << >>
    /\ result' = None
    /\ UNCHANGED clock

\* step_notification = await check_step_progress(profile, tracking)
AwaitStep ==
    /\ pc = "step"
    /\ LET current_time == EffectiveTime(tracking, clock)
           step_notification == check_step_progress(profile, tracking, current_time)
       IN /\ step_time' = current_time
          /\ evaluated' = Append(evaluated, "step")
          /\ IF step_notification # None
             THEN pc' = "done" /\ result' = step_notification
             ELSE pc' = "meal" /\ UNCHANGED result
    /\ UNCHANGED <<profile, tracking, clock, meal_time>>

\* meal_notification = await check_meal_logging(profile, tracking)
AwaitMeal ==
    /\ pc = "meal"
    /\ LET current_time == EffectiveTime(tracking, clock)
           meal_notification == check_meal_logging(profile, tracking, current_time)
       IN /\ meal_time' = current_time
          /\ evaluated' = Append(evaluated, "meal")
          /\ IF meal_notification # None
             THEN pc' = "done" /\ result' = meal_notification
             ELSE pc' = "calorie" /\ UNCHANGED result
    /\ UNCHANGED <<profile, tracking, clock, step_time>>

\* the calorie check without its return: the warning is built and the
\* fallback is called all the same
AwaitCalorie_falls_through ==
    /\ pc = "calorie"
    /\ evaluated' = Append(evaluated, "calorie")
    /\ pc' = "fallback"
    /\ UNCHANGED <<profile, tracking, clock, step_time, meal_time, result>>

\* calorie_notification = await check_calorie_progress(profile, tracking)
AwaitCalorie ==
    /\ pc = "calorie"
    /\ LET calorie_notification == check_calorie_progress(profile, tracking)
       IN /\ evaluated' = Append(evaluated, "calorie")
          /\ IF calorie_notification # None
             THEN pc' = "done" /\ result' = calorie_notification
             ELSE pc' = "fallback" /\ UNCHANGED result
    /\ UNCHANGED <<profile, tracking, clock, step_time, meal_time>>

\* return await generate_behavioral_notification(profile, tracking): the
\* agent run hands back a notification
AwaitFallbackReturns ==
    /\ pc = "fallback"
    /\ evaluated' = Append(evaluated, "fallback")
    /\ \E n \in GeneratedNotifications : result' = n
    /\ pc' = "done"
    /\ UNCHANGED <<profile, tracking, clock, step_time, meal_time>>

\* ... or it raises, and nothing catches the exception
AwaitFallbackRaises ==
    /\ pc = "fallback"
    /\ evaluated' = Append(evaluated, "fallback")
    /\ pc' = "raised"
    /\ UNCHANGED <<profile, tracking, clock, step_time, meal_time, result>>

\* the caller has its answer, a notification or the exception, and drops it
Return ==
    /\ pc \in {"done", "raised"}
    /\ pc' = "idle"
    /\ profile' = None
    /\ tracking' = None
    /\ step_time' = NoTime
    /\ meal_time' = NoTime
    /\ evaluated' = << >>
    /\ result' = None
    /\ UNCHANGED clock

\* the time of day moves on, past midnight too
ClockTick ==
    /\ \E i \in DOMAIN TimeSamples :
          /\ clock = TimeSamples[i]
          /\ clock' = TimeSamples[(i % Len(TimeSamples)) + 1]
    /\ UNCHANGED <<pc, profile, tracking, step_time, meal_time, evaluated, result>>

(***************************************************************************)
(* service.py: get_contextual_notification_with_circle.  The variable      *)
(* circle is its circle argument, None when no circle is handed over.      *)
(***************************************************************************)
\* the influencer line, with the rank and the number of followers formatted
\* into it
InfluencerLine(member, p) ==
    <<"As a {}, your progress inspires {} followers!", member.rank, Len(p.followers)>>

\* the streak line, with the streak formatted into it
StreakLine(member) ==
    <<"You're on a {}-day streak! Keep it up!", member.current_streak>>

\* the enhancement with an if for the elif: both lines for an influencer on
\* a streak
WithCircleContext_both_lines(base_notification, c, p) ==
    IF c # None /\ base_notification # None
    THEN LET i == FindMember(c, p.name) IN
         IF i # 0
         THEN LET member == c.members[i]
                  first == IF member.rank \in InfluencerTiers
                           THEN InfluencerLine(member, p) ELSE << >>
                  second == IF member.current_streak > 0
                            THEN StreakLine(member) ELSE << >>
              IN [base_notification EXCEPT !.message = @ \o first \o second]
         ELSE base_notification
    ELSE base_notification

\* what get_contextual_notification_with_circle makes of the base
\* notification: message += one line, the first whose condition holds
WithCircleContext(base_notification, c, p) ==
    IF c # None /\ base_notification # None
    THEN LET i == FindMember(c, p.name) IN
         IF i # 0
         THEN LET member == c.members[i] IN
              IF member.rank \in InfluencerTiers
              THEN [base_notification EXCEPT !.message = @ \o InfluencerLine(member, p)]
              ELSE IF member.current_streak > 0
              THEN [base_notification EXCEPT !.message = @ \o StreakLine(member)]
              ELSE base_notification
         ELSE base_notification
    ELSE base_notification

\* a caller calls get_contextual_notification_with_circle(profile, tracking,
\* circle), which starts with a get_contextual_notification call
get_contextual_notification_with_circle(p, t) ==
    get_contextual_notification(p, t)

\* base_notification = await get_contextual_notification(profile, tracking),
\* and the rest of the function; an exception of the base call passes through
AwaitBase ==
    /\ pc = "done"
    /\ pc' = "enhanced"
    /\ result' = WithCircleContext(result, circle, profile)
    /\ UNCHANGED <<profile, tracking, clock, step_time, meal_time, evaluated>>

\* the caller has the enhanced notification, or the exception
ReturnWithCircle ==
    /\ pc \in {"enhanced", "raised"}
    /\ pc' = "idle"
    /\ profile' = None
    /\ tracking' = None
    /\ step_time' = NoTime
    /\ meal_time' = NoTime
    /\ evaluated' = << >>
    /\ result' = None
    /\ UNCHANGED clock

(***************************************************************************)
(* The state machines                                                      *)
(***************************************************************************)
\* no circle yet
CircleInit ==
    /\ circle = None
    /\ circles_joined = [u \in Users |-> << >>]
    /\ now = 0
    /\ last = [op |-> "start"]
    /\ challenge = None
    /\ joining = [k \in Callers |-> None]

\* no get_contextual_notification call yet
NotifyInit ==
    /\ pc = "idle"
    /\ profile = None
    /\ tracking = None
    /\ clock \in Times
    /\ step_time = NoTime
    /\ meal_time = NoTime
    /\ evaluated = << >>
    /\ result = None

Init ==
    /\ CircleInit
    /\ NotifyInit
    /\ clock = TimeSamples[1]

Next ==
    \/ /\ \E p \in Profiles, m \in 0..MaxCapacity : create_fitness_circle(p, m)
       /\ UNCHANGED <<notify_vars, challenge, joining>>
    \/ /\ \E p \in Profiles : join_circle(p)
       /\ UNCHANGED <<notify_vars, challenge, joining>>
    \/ /\ \E id \in Users \cup {Stranger}, r \in Ranks : promote_member_rank(id, r)
       /\ UNCHANGED <<notify_vars, challenge, joining>>
    \/ /\ \E id \in Users \cup {Stranger} : update_member_progress(id)
       /\ UNCHANGED <<notify_vars, challenge, joining>>
    \/ /\ \E p \in Actors : create_circle_challenge(p)
       /\ UNCHANGED <<notify_vars, challenge, joining>>
    \/ /\ \E p \in Actors, t \in TargetLists : initiate_accountability_check(p, t)
       /\ UNCHANGED <<notify_vars, challenge, joining>>
    \/ /\ \E p \in Profiles : create_influencer_post(p)
       /\ UNCHANGED <<notify_vars, challenge, joining>>
    \/ /\ Tick
       /\ UNCHANGED <<notify_vars, challenge, joining>>

Spec == Init /\ [][Next]_vars

NextRanks ==
    \/ /\ \E p \in Profiles, m \in 0..MaxCapacity : create_fitness_circle(p, m)
       /\ UNCHANGED <<notify_vars, challenge, joining>>
    \/ /\ \E p \in Profiles : join_circle(p)
       /\ UNCHANGED <<notify_vars, challenge, joining>>
    \/ /\ \E id \in Users \cup {Stranger}, r \in Ranks : promote_member_rank(id, r)
       /\ UNCHANGED <<notify_vars, challenge, joining>>
    \/ /\ \E id \in Users \cup {Stranger} : update_member_progress(id)
       /\ UNCHANGED <<notify_vars, challenge, joining>>
    \/ /\ \E i \in 1..MaxCapacity, s \in StreakValues, t \in PointValues :
            set_member_stats(i, s, t)
       /\ UNCHANGED <<notify_vars, challenge, joining>>

SpecRanks == Init /\ [][NextRanks]_vars

InitNotify ==
    /\ CircleInit
    /\ NotifyInit

NextNotify ==
    \/ /\ pc = "idle"
       /\ \E p \in NotifyProfiles, t \in Trackings : get_contextual_notification(p, t)
       /\ UNCHANGED circle_vars
    \/ /\ AwaitStep
       /\ UNCHANGED circle_vars
    \/ /\ AwaitMeal
       /\ UNCHANGED circle_vars
    \/ /\ AwaitCalorie
       /\ UNCHANGED circle_vars
    \/ /\ AwaitFallbackReturns
       /\ UNCHANGED circle_vars
    \/ /\ AwaitFallbackRaises
       /\ UNCHANGED circle_vars
    \/ /\ Return
       /\ UNCHANGED circle_vars
    \/ /\ ClockTick
       /\ UNCHANGED circle_vars

SpecNotify == InitNotify /\ [][NextNotify]_vars

\* the circle operations with a caller that keeps the challenge it was
\* given: challenge = await create_circle_challenge(...)
NextChallenge ==
    \/ /\ \E p \in Profiles, m \in 0..MaxCapacity : create_fitness_circle(p, m)
       /\ UNCHANGED <<notify_vars, challenge, joining>>
    \/ /\ \E p \in Profiles : join_circle(p)
       /\ UNCHANGED <<notify_vars, challenge, joining>>
    \/ /\ \E id \in Users, r \in Ranks : promote_member_rank(id, r)
       /\ UNCHANGED <<notify_vars, challenge, joining>>
    \/ /\ \E p \in Actors : create_circle_challenge(p)
       /\ challenge' = IF last'.ret # None THEN last'.ret ELSE challenge
       /\ UNCHANGED <<notify_vars, joining>>
    \/ /\ Tick
       /\ UNCHANGED <<notify_vars, challenge, joining>>

SpecChallenge == Init /\ [][NextChallenge]_vars

\* the operations that add members and set ranks, under a clock, with
\* callers that store streaks and points in the members
NextPromote ==
    \/ /\ \E p \in Profiles, m \in 0..MaxCapacity : create_fitness_circle(p, m)
       /\ UNCHANGED <<notify_vars, challenge, joining>>
    \/ /\ \E p \in Profiles : join_circle(p)
       /\ UNCHANGED <<notify_vars, challenge, joining>>
    \/ /\ \E id \in Users, r \in Ranks : promote_member_rank(id, r)
       /\ UNCHANGED <<notify_vars, challenge, joining>>
    \/ /\ \E i \in 1..MaxCapacity, st \in {<<0, 0>>, <<StreakThreshold, PointsThreshold>>} :
            set_member_stats(i, st[1], st[2])
       /\ UNCHANGED <<notify_vars, challenge, joining>>
    \/ /\ Tick
       /\ UNCHANGED <<notify_vars, challenge, joining>>

SpecPromote == Init /\ [][NextPromote]_vars

\* the profiles get_contextual_notification_with_circle is called with: ada,
\* with no follower or with two
EnhanceProfiles ==
    [fitness_goal : {WEIGHT_LOSS, STRENGTH}, name : {"ada"},
     followers : {<< >>, <<"bo", Stranger>>}]

\* the snapshots it is called with: taken at 14:00
EnhanceTrackings ==
    {t \in Trackings : /\ t.current_time = Time(14, 0)
                       /\ t.steps_taken \in {0, LowSteps}
                       /\ t.meals_logged \in {<< >>, <<"breakfast", "lunch">>}
                       /\ t.calories_goal = 1500}

\* ada as a member of a circle, with a rank and a streak
AdaAsMember ==
    {[CircleMember("ada", r, 0, TRUE) EXCEPT !.current_streak = s] :
        r \in Ranks, s \in StreakValues}

\* bo as the creator of a circle, a Leader on a streak
BoAsCreator ==
    [CircleMember("bo", LEADER, 0, TRUE) EXCEPT !.current_streak = StreakThreshold]

\* the member lists of the circles handed over: ada alone, ada after bo, bo
\* alone
EnhanceLists ==
    {<<m>> : m \in AdaAsMember} \cup {<<BoAsCreator, m>> : m \in AdaAsMember}
        \cup {<<BoAsCreator>>}

\* no circle, or one of these circles
InitEnhance ==
    /\ \/ /\ circle = None
          /\ circles_joined = [u \in Users |-> << >>]
       \/ \E l \in EnhanceLists :
          /\ circle = [kind |-> "FitnessCircle",
                       circle_id |-> TheCircleId,
                       created_by |-> l[1].user_id,
                       max_members |-> MaxCapacity,
                       created_at |-> 0,
                       last_activity |-> 0,
                       members |-> l]
          /\ circles_joined = [u \in Users |->
                                  IF \E i \in DOMAIN l : l[i].user_id = u
                                  THEN <<TheCircleId>> ELSE << >>]
    /\ now = 0
    /\ last = [op |-> "start"]
    /\ challenge = None
    /\ joining = [k \in Callers |-> None]
    /\ NotifyInit
    /\ clock = TimeSamples[1]

NextEnhance ==
    \/ /\ pc = "idle"
       /\ \E p \in EnhanceProfiles, t \in EnhanceTrackings :
            get_contextual_notification_with_circle(p, t)
       /\ UNCHANGED circle_vars
    \/ /\ AwaitStep
       /\ UNCHANGED circle_vars
    \/ /\ AwaitMeal
       /\ UNCHANGED circle_vars
    \/ /\ AwaitCalorie
       /\ UNCHANGED circle_vars
    \/ /\ AwaitFallbackReturns
       /\ UNCHANGED circle_vars
    \/ /\ AwaitFallbackRaises
       /\ UNCHANGED circle_vars
    \/ /\ AwaitBase
       /\ UNCHANGED circle_vars
    \/ /\ ReturnWithCircle
       /\ UNCHANGED circle_vars

SpecEnhance == InitEnhance /\ [][NextEnhance]_vars

\* join_circle run by two callers with no mutual exclusion, on a circle
\* created with room for at least one member
NextRace ==
    \/ /\ \E p \in Profiles, m \in 1..MaxCapacity : create_fitness_circle(p, m)
       /\ UNCHANGED <<notify_vars, challenge, joining>>
    \/ /\ \E k \in Callers, p \in Profiles : JoinChecks(k, p)
       /\ UNCHANGED <<notify_vars, challenge>>
    \/ /\ \E k \in Callers : JoinAppends(k)
       /\ UNCHANGED <<notify_vars, challenge>>

SpecRace == Init /\ [][NextRace]_vars

\* the operations that write circle.members, promote_member_rank left out,
\* with callers that store streaks and points in the members
NextNoPromote ==
    \/ /\ \E p \in Profiles, m \in 0..MaxCapacity : create_fitness_circle(p, m)
       /\ UNCHANGED <<notify_vars, challenge, joining>>
    \/ /\ \E p \in Profiles : join_circle(p)
       /\ UNCHANGED <<notify_vars, challenge, joining>>
    \/ /\ \E id \in Users \cup {Stranger} : update_member_progress(id)
       /\ UNCHANGED <<notify_vars, challenge, joining>>
    \/ /\ \E i \in 1..MaxCapacity, s \in StreakValues, t \in PointValues :
            set_member_stats(i, s, t)
       /\ UNCHANGED <<notify_vars, challenge, joining>>

SpecNoPromote == Init /\ [][NextNoPromote]_vars

\* the user_ids of the circles handed to get_circle_leaderboard
BoardNames == <<"ada", "bo", "cy", "dee">>
BoardUsers == {BoardNames[i] : i \in 1..MaxBoard}

\* a member of such a circle, with the streak and the points its caller stored
BoardMembers ==
    {[CircleMember(u, MEMBER, 0, TRUE) EXCEPT !.current_streak = s, !.total_points = p] :
        u \in BoardUsers, s \in StreakValues, p \in PointValues}

\* the member lists: one to MaxBoard members, no user twice
BoardLists ==
    {l \in UNION {[1..n -> BoardMembers] : n \in 1..MaxBoard} :
        \A i, j \in DOMAIN l : l[i].user_id = l[j].user_id => i = j}

\* a circle whose members joined in the order of the list
InitBoard ==
    /\ \E l \in BoardLists :
        /\ circle = [kind |-> "FitnessCircle",
                     circle_id |-> TheCircleId,
                     created_by |-> l[1].user_id,
                     max_members |-> MaxBoard,
                     created_at |-> 0,
                     last_activity |-> 0,
                     members |-> l]
        /\ circles_joined = [u \in Users |->
                                IF \E i \in DOMAIN l : l[i].user_id = u
                                THEN <<TheCircleId>> ELSE << >>]
    /\ now = 0
    /\ last = [op |-> "start"]
    /\ challenge = None
    /\ joining = [k \in Callers |-> None]
    /\ NotifyInit
    /\ clock = TimeSamples[1]

NextBoard ==
    /\ get_circle_leaderboard
    /\ UNCHANGED <<notify_vars, challenge, joining>>

SpecBoard == InitBoard /\ [][NextBoard]_vars

(***************************************************************************)
(* The claims                                                              *)
(***************************************************************************)
\* position of a rank in the order Follower < Member < Leader < Influencer
\* < CommunityInfluencer < BigInfluencer
RankOrder(rank) == CHOOSE i \in DOMAIN CircleRank : CircleRank[i] = rank

\* C1: when the step rule read an effective time >= 12:00 and steps_taken is
\* below 2000, the call returns a step reminder of urgency "high" whose
\* context.steps_taken is the input's, after evaluating the step rule only,
\* whatever the meals, the calories and the goal are.
C1_StepReminderWins ==
    (/\ pc \in {"meal", "calorie", "fallback", "done", "raised"}
     /\ step_time >= 12 * 60
     /\ tracking.steps_taken < 2000)
    => /\ pc = "done"
       /\ result.notification_type = "step_reminder"
       /\ result.urgency = "high"
       /\ result.context.steps_taken = tracking.steps_taken
       /\ evaluated = <<"step">>

\* C1's case: a step reminder returned although breakfast is not logged
\* and the calorie rule would fire too
C1_Witness ==
    /\ pc = "done"
    /\ step_time = 12 * 60
    /\ tracking.steps_taken = 1999
    /\ tracking.meals_logged = << >>
    /\ profile.fitness_goal = "weight_loss"
    /\ tracking.calories_consumed = 1201
    /\ result.notification_type = "step_reminder"

\* C2: a circle never holds more members than max_members, whatever
\* max_members it was created with.
C2_WithinCapacity ==
    circle # None => Len(circle.members) <= circle.max_members

\* C3: no two entries of circle.members have the same user_id.
C3_UniqueMembers ==
    circle # None =>
        \A i, j \in DOMAIN circle.members :
            circle.members[i].user_id = circle.members[j].user_id => i = j

\* C3's case: a join refused although the circle has room, which is the
\* refusal of a profile that is a member already
C3_Witness ==
    /\ circle # None
    /\ last = [op |-> "join_circle", ret |-> FALSE]
    /\ Len(circle.members) < circle.max_members

\* this step leaves no member with a lower rank than the member had
RanksNotLowered ==
    (circle # None /\ circle' # None) =>
        \A i \in DOMAIN circle.members :
            \E j \in DOMAIN circle'.members :
                /\ circle'.members[j].user_id = circle.members[i].user_id
                /\ RankOrder(circle'.members[j].rank) >= RankOrder(circle.members[i].rank)

\* C4: no step of join_circle, promote_member_rank or update_member_progress
\* leaves a member with a lower rank than the member had before the step.
C4_RankNeverLowered == [][RanksNotLowered]_vars

\* C4, amended: no step other than a promote_member_rank call lowers a
\* member's rank.
C4_RankLoweredOnlyByPromote ==
    [][last'.op # "promote_member_rank" => RanksNotLowered]_vars

\* C4's case: an update_member_progress call has just returned True for
\* the only member, who has 1000 points and is a Leader after it
C4_Witness ==
    /\ circle # None
    /\ last = [op |-> "update_member_progress", ret |-> TRUE]
    /\ Len(circle.members) = 1
    /\ circle.members[1].rank = "leader"
    /\ circle.members[1].total_points = 1000
    /\ circle.members[1].current_streak = 0

\* next_rank(rank, current_streak, total_points) of the rank policy
C5_next_rank(rank, current_streak, total_points) ==
    IF rank = "follower" /\ current_streak >= 7 THEN "member"
    ELSE IF rank = "member" /\ total_points >= 1000 THEN "leader"
    ELSE rank

\* C5: update_member_progress on an existing member sets that member's rank
\* to next_rank(rank, current_streak, total_points), leaves the ranks of the
\* others alone, and changes no member's current_streak or total_points.
C5_UpdateAppliesRankPolicy ==
    [][last'.op = "update_member_progress" => \A i \in DOMAIN circle.members :
          update_member_progress(circle.members[i].user_id) =>
              /\ last'.ret = TRUE
              /\ Len(circle'.members) = Len(circle.members)
              /\ circle'.members[i].rank =
                    C5_next_rank(circle.members[i].rank,
                                 circle.members[i].current_streak,
                                 circle.members[i].total_points)
              /\ \A j \in DOMAIN circle.members :
                    /\ j # i => circle'.members[j].rank = circle.members[j].rank
                    /\ circle'.members[j].current_streak = circle.members[j].current_streak
                    /\ circle'.members[j].total_points = circle.members[j].total_points
      ]_vars

\* C5's case: the only member, with a streak of 7 and 1000 points, is a
\* Member after an update: it was a Follower before it, as a Member would
\* have become a Leader
C5_Witness ==
    /\ circle # None
    /\ last = [op |-> "update_member_progress", ret |-> TRUE]
    /\ Len(circle.members) = 1
    /\ circle.members[1].rank = "member"
    /\ circle.members[1].current_streak = 7
    /\ circle.members[1].total_points = 1000

\* the profile's name is the user_id of a member of the circle whose rank
\* is one of `ranks`
MemberWithRankIn(name, ranks) ==
    \E i \in DOMAIN circle.members :
        /\ circle.members[i].user_id = name
        /\ circle.members[i].rank \in ranks

\* C6: create_circle_challenge and initiate_accountability_check return an
\* object exactly when the acting profile's name is the user_id of a member
\* whose rank is Leader, Influencer, CommunityInfluencer or BigInfluencer,
\* and None otherwise; either way the circle is as it was.
C6_LeadGateExact ==
    [][/\ last'.op = "create_circle_challenge" => \A p \in Actors :
              create_circle_challenge(p) =>
                  (last'.ret # None <=>
                      MemberWithRankIn(p.name, {"leader", "influencer",
                                                "community_influencer", "big_influencer"}))
       /\ last'.op = "initiate_accountability_check" =>
           \A p \in Actors, t \in TargetLists :
              initiate_accountability_check(p, t) =>
                  (last'.ret # None <=>
                      MemberWithRankIn(p.name, {"leader", "influencer",
                                                "community_influencer", "big_influencer"}))
       /\ last'.op \in {"create_circle_challenge", "initiate_accountability_check"}
              => circle' = circle
      ]_vars

\* C6's case: a check initiated by a Leader, in a circle that also holds a
\* member below Leader
C6_Witness ==
    /\ circle # None
    /\ last.op = "initiate_accountability_check"
    /\ last.ret # None
    /\ MemberWithRankIn(last.ret.initiated_by, {"leader"})
    /\ \E i \in DOMAIN circle.members : circle.members[i].rank \in {"follower", "member"}

\* C7: create_influencer_post returns a post exactly when the acting profile
\* is a member of the circle and that member's rank is Influencer,
\* CommunityInfluencer or BigInfluencer, whatever rank the profile carries.
C7_PostGateByMemberRank ==
    [][last'.op = "create_influencer_post" =>
        \A p \in Profiles :
            create_influencer_post(p) =>
                (last'.ret # None <=>
                    MemberWithRankIn(p.name, {"influencer", "community_influencer",
                                              "big_influencer"}))
      ]_vars

\* C8: join_circle returns False exactly when len(members) == max_members or
\* the profile's name is a member's user_id already, and a join that returns
\* False changes neither the circle nor profile.circles_joined.
C8_JoinFailsExactly ==
    [][last'.op = "join_circle" =>
        \A p \in Profiles :
            join_circle(p) =>
                /\ last'.ret = FALSE <=>
                      \/ Len(circle.members) = circle.max_members
                      \/ \E i \in DOMAIN circle.members : circle.members[i].user_id = p.name
                /\ last'.ret = FALSE =>
                      circle' = circle /\ circles_joined' = circles_joined
      ]_vars

\* C9: a join_circle that returns True appends one member to circle.members,
\* after the members there were, with the profile's name as user_id, online,
\* of rank Member for a profile of an influencer tier and Follower for any
\* other, and sets circle.last_activity to the current time.
C9_JoinAppendsOneMember ==
    [][last' = [op |-> "join_circle", ret |-> TRUE] =>
        \A p \in Profiles :
            join_circle(p) =>
                LET n == Len(circle.members) IN
                /\ Len(circle'.members) = n + 1
                /\ SubSeq(circle'.members, 1, n) = circle.members
                /\ circle'.members[n + 1].user_id = p.name
                /\ circle'.members[n + 1].is_online = TRUE
                /\ circle'.members[n + 1].rank =
                      IF p.circle_rank \in {"influencer", "community_influencer",
                                            "big_influencer"}
                      THEN "member" ELSE "follower"
                /\ circle'.last_activity = now
      ]_vars

\* C9's case: a profile has just joined, after the clock moved on from the
\* creation of the circle, and is its second member, of rank Member
C9_Witness ==
    /\ circle # None
    /\ last = [op |-> "join_circle", ret |-> TRUE]
    /\ Len(circle.members) = 2
    /\ circle.members[2].rank = "member"
    /\ circle.created_at < now
    /\ circle.last_activity = now

\* C10: when the step rule abstained on steps_taken >= 2000, the meal rule
\* read an effective time >= 14:00 and neither "breakfast" nor "lunch" is
\* logged, the call returns the breakfast reminder, of urgency medium, and
\* not the lunch reminder.
C10_BreakfastBeforeLunch ==
    (/\ pc \in {"calorie", "fallback", "done", "raised"}
     /\ tracking.steps_taken >= 2000
     /\ meal_time >= 14 * 60
     /\ ~InList("breakfast", tracking.meals_logged)
     /\ ~InList("lunch", tracking.meals_logged))
    => /\ pc = "done"
       /\ result.notification_type = "meal_reminder"
       /\ result.urgency = "medium"
       /\ result.message = <<"Haven't logged breakfast yet?">>
       /\ result.suggested_action = "Log your breakfast or plan your next meal"
       /\ result.message # <<"Time for lunch!">>

\* C10's case: at 14:00, with no meal logged and 2000 steps, the call has
\* returned a meal reminder
C10_Witness ==
    /\ pc = "done"
    /\ tracking.steps_taken = 2000
    /\ meal_time = 14 * 60
    /\ tracking.meals_logged = << >>
    /\ result.notification_type = "meal_reminder"

\* C11: the call returns the lunch reminder, a meal reminder of urgency
\* medium, exactly when the step rule abstained (it read a time before 12:00
\* or steps_taken >= 2000), the meal rule read a time >= 14:00, "breakfast"
\* is logged and "lunch" is not, whatever the calories and the goal are.
C11_LunchReminderExactly ==
    pc \in {"done", "raised"} =>
        ((/\ pc = "done"
          /\ result.message = <<"Time for lunch!">>
          /\ result.notification_type = "meal_reminder"
          /\ result.urgency = "medium")
         <=>
         (/\ step_time < 12 * 60 \/ tracking.steps_taken >= 2000
          /\ meal_time >= 14 * 60
          /\ InList("breakfast", tracking.meals_logged)
          /\ ~InList("lunch", tracking.meals_logged)))

\* C11's case: 2000 steps, breakfast logged, 14:00, and a weight-loss
\* profile over 80% of its calories: the lunch reminder all the same
C11_Witness ==
    /\ pc = "done"
    /\ tracking.steps_taken = 2000
    /\ meal_time = 14 * 60
    /\ tracking.meals_logged = <<"breakfast">>
    /\ profile.fitness_goal = "weight_loss"
    /\ tracking.calories_consumed = 1201
    /\ result.message = <<"Time for lunch!">>

\* C12: once the step and the meal rule have abstained, the call returns a
\* calorie warning built by the calorie rule (urgency high, the context
\* carrying calories_consumed and calories_goal) exactly when the goal is
\* weight_loss and 5 * calories_consumed > 4 * calories_goal; in every other
\* case the call goes on to the fallback.
C12_CalorieRuleWeightLossOnly ==
    (Len(evaluated) >= 3 /\ pc \in {"fallback", "done", "raised"}) =>
        LET over == /\ profile.fitness_goal = "weight_loss"
                    /\ 5 * tracking.calories_consumed > 4 * tracking.calories_goal
        IN /\ over <=> /\ pc = "done"
                       /\ evaluated = <<"step", "meal", "calorie">>
                       /\ result.notification_type = "calorie_warning"
                       /\ result.urgency = "high"
                       /\ result.context = [calories_consumed |-> tracking.calories_consumed,
                                            calories_goal |-> tracking.calories_goal]
           /\ ~over => pc = "fallback" \/ evaluated[4] = "fallback"

\* C12's case: 1201 of 1500 calories, and a goal other than weight_loss:
\* the fallback has answered
C12_Witness ==
    /\ pc = "done"
    /\ profile.fitness_goal = "muscle_gain"
    /\ tracking.calories_consumed = 1201
    /\ tracking.calories_goal = 1500
    /\ evaluated = <<"step", "meal", "calorie", "fallback">>

\* the order the rules and the fallback are evaluated in
C13_Order == <<"step", "meal", "calorie", "fallback">>

\* C13: in one call the rules and the fallback are evaluated in the order
\* step, meal, calorie, fallback, each at most once; the first rule that
\* fires ends the call with its notification; the fallback is called exactly
\* when all three rules abstained.
C13_FallbackOnlyAfterAllAbstain ==
    /\ Len(evaluated) <= 4
    /\ evaluated = SubSeq(C13_Order, 1, Len(evaluated))
    /\ pc \in {"done", "raised"} =>
        LET s == check_step_progress(profile, tracking, step_time)
            m == check_meal_logging(profile, tracking, meal_time)
            c == check_calorie_progress(profile, tracking)
        IN IF s # None THEN evaluated = <<"step">> /\ result = s
           ELSE IF m # None THEN evaluated = <<"step", "meal">> /\ result = m
           ELSE IF c # None THEN evaluated = <<"step", "meal", "calorie">> /\ result = c
           ELSE evaluated = C13_Order

\* C13's case: the fallback has answered, after the three rules
C13_Witness ==
    /\ pc = "done"
    /\ evaluated = <<"step", "meal", "calorie", "fallback">>
    /\ result \in GeneratedNotifications

\* the lists that hold the elements of list, each once, in some order
Reorderings(list) ==
    {[i \in DOMAIN list |-> list[f[i]]] : f \in Permutations(DOMAIN list)}

\* C14: get_circle_leaderboard returns the members of the circle, each once,
\* by total_points descending, then by current_streak descending; members
\* equal in both keep the order they have in circle.members; the call leaves
\* circle.members as it was.
C14_LeaderboardSortedStable ==
    [][last'.op = "get_circle_leaderboard" =>
        LET in == circle.members
            out == last'.ret
        IN /\ circle' = circle
           /\ out \in Reorderings(in)
           /\ \A i, j \in DOMAIN out :
                i < j =>
                    /\ out[i].total_points >= out[j].total_points
                    /\ out[i].total_points = out[j].total_points
                        => out[i].current_streak >= out[j].current_streak
                    /\ (/\ out[i].total_points = out[j].total_points
                        /\ out[i].current_streak = out[j].current_streak)
                        => \E a, b \in DOMAIN in : a < b /\ in[a] = out[i] /\ in[b] = out[j]
      ]_vars

\* C14's case: three members, the first and the last to join tied on both
\* keys, the second ahead of both
C14_Witness ==
    /\ last.op = "get_circle_leaderboard"
    /\ Len(circle.members) = 3
    /\ SortKey(circle.members[1]) = SortKey(circle.members[3])
    /\ TupleLess(SortKey(circle.members[1]), SortKey(circle.members[2]))
    /\ last.ret = <<circle.members[2], circle.members[1], circle.members[3]>>

\* (total_points, current_streak) of every element of list, in order
Keys(list) == [i \in DOMAIN list |-> <<list[i].total_points, list[i].current_streak>>]

\* C15 as stated: whatever order the members are handed over in, the
\* leaderboard is the same sequence of members.
C15_LeaderboardOrderIndependent ==
    last.op = "get_circle_leaderboard" =>
        \A l \in Reorderings(circle.members) : Leaderboard(l) = last.ret

\* C15, amended: whatever order the members are handed over in, the
\* leaderboard shows the same sequence of (total_points, current_streak), and
\* the same sequence of members when no two members are equal in both.
C15_LeaderboardOrderIndependentUpToTies ==
    last.op = "get_circle_leaderboard" =>
        \A l \in Reorderings(circle.members) :
            /\ Keys(Leaderboard(l)) = Keys(last.ret)
            /\ (\A i, j \in DOMAIN l : Keys(l)[i] = Keys(l)[j] => i = j)
                => Leaderboard(l) = last.ret

\* C15's case: three members, no two equal in both keys, joined in
\* ascending order of the keys
C15_Witness ==
    /\ last.op = "get_circle_leaderboard"
    /\ Len(circle.members) = 3
    /\ TupleLess(SortKey(circle.members[1]), SortKey(circle.members[2]))
    /\ TupleLess(SortKey(circle.members[2]), SortKey(circle.members[3]))
    /\ circle.members[1].total_points = circle.members[2].total_points
    /\ last.ret = <<circle.members[3], circle.members[2], circle.members[1]>>

\* the elements of a list
Elements(list) == {list[i] : i \in DOMAIN list}

\* C16: for an initiator who is a member of rank Leader or above, the check
\* initiate_accountability_check returns has as target_members exactly the
\* requested ids that are user_ids of members of the circle, none twice; a
\* request none of whose ids is a member's still returns a check, with no
\* targets.
C16_TargetsAreRequestedMembers ==
    [][last'.op = "initiate_accountability_check" =>
        \A p \in Actors, t \in TargetLists :
            (/\ initiate_accountability_check(p, t)
             /\ MemberWithRankIn(p.name, {"leader", "influencer",
                                          "community_influencer", "big_influencer"}))
            => /\ last'.ret # None
               /\ Elements(last'.ret.target_members)
                    = Elements(t) \cap {circle.members[i].user_id : i \in DOMAIN circle.members}
               /\ Cardinality(Elements(last'.ret.target_members))
                    = Len(last'.ret.target_members)
      ]_vars

\* C16's case: a check in a circle of two members, neither of them among
\* the requested ids
C16_Witness ==
    /\ circle # None
    /\ Len(circle.members) = 2
    /\ last.op = "initiate_accountability_check"
    /\ last.ret # None
    /\ last.ret.target_members = << >>

\* C17: a challenge create_circle_challenge returns has as participants the
\* user_ids of the members the circle has at that moment, in their order,
\* its creator among them; a member who joins later is not added to the
\* participants of a challenge created before.
C17_ParticipantsAreMembersAtCreation ==
    [][/\ (last'.op = "create_circle_challenge" /\ last'.ret # None) =>
            /\ last'.ret.participants
                 = [i \in DOMAIN circle.members |-> circle.members[i].user_id]
            /\ \E i \in DOMAIN last'.ret.participants :
                 last'.ret.participants[i] = last'.ret.created_by
       /\ (last'.op = "join_circle" /\ challenge # None) =>
            /\ challenge' # None
            /\ challenge'.participants = challenge.participants
      ]_vars

\* C17's case: a challenge created in a circle of one, and a second member
\* who joined after that
C17_Witness ==
    /\ challenge # None
    /\ last = [op |-> "join_circle", ret |-> TRUE]
    /\ Len(circle.members) = 2
    /\ challenge.participants = <<circle.members[1].user_id>>

\* the id is the user_id of no member of the circle
NotAMember(id) == \A i \in DOMAIN circle.members : circle.members[i].user_id # id

\* C18: promote_member_rank and update_member_progress, called with a
\* member_id that is the user_id of no member, return False and leave the
\* circle as it was: every member's rank, last_active and is_online, and the
\* circle's last_activity.
C18_UnknownMemberChangesNothing ==
    [][/\ last'.op = "promote_member_rank" =>
            \A id \in Users \cup {Stranger}, r \in Ranks :
                (promote_member_rank(id, r) /\ NotAMember(id))
                    => last'.ret = FALSE /\ circle' = circle
       /\ last'.op = "update_member_progress" =>
            \A id \in Users \cup {Stranger} :
                (update_member_progress(id) /\ NotAMember(id))
                    => last'.ret = FALSE /\ circle' = circle
      ]_vars

\* C18's case: update_member_progress has returned False, at a time later
\* than any activity of the circle
C18_Witness ==
    /\ circle # None
    /\ last = [op |-> "update_member_progress", ret |-> FALSE]
    /\ now > circle.last_activity
    /\ \A i \in DOMAIN circle.members : circle.members[i].last_active < now

\* C19: promote_member_rank on the user_id of a member returns True and
\* leaves that member with rank new_rank, whatever new_rank is; the other
\* members' ranks, the order of the list, and the member's current_streak
\* and total_points are as before; last_activity is the current time.
C19_PromoteOverwritesRank ==
    [][last'.op = "promote_member_rank" =>
        \A id \in Users, r \in Ranks :
            (promote_member_rank(id, r) /\ ~NotAMember(id)) =>
                /\ last'.ret = TRUE
                /\ Len(circle'.members) = Len(circle.members)
                /\ \A j \in DOMAIN circle.members :
                    /\ circle'.members[j].user_id = circle.members[j].user_id
                    /\ circle.members[j].user_id = id =>
                        /\ circle'.members[j].rank = r
                        /\ circle'.members[j].current_streak = circle.members[j].current_streak
                        /\ circle'.members[j].total_points = circle.members[j].total_points
                    /\ circle.members[j].user_id # id =>
                        circle'.members[j].rank = circle.members[j].rank
                /\ circle'.last_activity = now
      ]_vars

\* C19's case: the creator of the circle, with a streak of 7 and 1000 points,
\* is a Follower after a promote_member_rank at a time later than the
\* creation
C19_Witness ==
    /\ circle # None
    /\ last = [op |-> "promote_member_rank", ret |-> TRUE]
    /\ Len(circle.members) = 2
    /\ circle.members[1].rank = "follower"
    /\ circle.members[1].current_streak = 7
    /\ circle.members[1].total_points = 1000
    /\ circle.last_activity = now
    /\ now > circle.created_at

\* C20: get_contextual_notification_with_circle returns the base
\* notification with at most one line appended to its message: for a profile
\* that is a member of the circle handed over, the influencer line when the
\* member's rank is Influencer, CommunityInfluencer or BigInfluencer,
\* otherwise the streak line when current_streak > 0, otherwise nothing;
\* with no circle, or a circle the profile is no member of, the message is
\* the base's; notification_type, urgency, context and suggested_action are
\* always the base's; and no base notification gives no notification.
C20_AtMostOneLineAppended ==
    [][(pc = "done" /\ pc' = "enhanced") =>
        LET base == result
            out == result'
            n == Len(base.message)
            line == SubSeq(out.message, n + 1, Len(out.message))
            member == IF circle = None THEN None
                      ELSE IF NotAMember(profile.name) THEN None
                      ELSE circle.members[CHOOSE i \in DOMAIN circle.members :
                              /\ circle.members[i].user_id = profile.name
                              /\ \A j \in 1..(i - 1) :
                                    circle.members[j].user_id # profile.name]
        IN /\ out.notification_type = base.notification_type
           /\ out.urgency = base.urgency
           /\ out.context = base.context
           /\ out.suggested_action = base.suggested_action
           /\ Len(out.message) >= n
           /\ SubSeq(out.message, 1, n) = base.message
           /\ IF member = None THEN line = << >>
              ELSE IF member.rank \in {"influencer", "community_influencer", "big_influencer"}
              THEN /\ Len(line) = 3
                   /\ line[1] = "As a {}, your progress inspires {} followers!"
                   /\ line[2] = member.rank
                   /\ line[3] = Len(profile.followers)
              ELSE IF member.current_streak > 0
              THEN /\ Len(line) = 2
                   /\ line[1] = "You're on a {}-day streak! Keep it up!"
                   /\ line[2] = member.current_streak
              ELSE line = << >>
           /\ WithCircleContext(None, circle, profile) = None
      ]_vars

\* C20's case: ada, second member of the circle, a BigInfluencer on a streak
\* of 7 with two followers, has a calorie warning with the influencer line
\* and no streak line
C20_Witness ==
    /\ pc = "enhanced"
    /\ circle # None
    /\ Len(circle.members) = 2
    /\ circle.members[2].rank = "big_influencer"
    /\ circle.members[2].current_streak = 7
    /\ Len(profile.followers) = 2
    /\ result.notification_type = "calorie_warning"
    /\ Len(result.message) = Len(check_calorie_progress(profile, tracking).message) + 3
    /\ result.message[Len(result.message)] = 2

\* C21: when the three rules abstained and the fallback call failed, the
\* call ends with no notification or a static default one: it never ends
\* with the failure handed to its caller.
C21_FallbackFailureDegrades ==
    pc # "raised"

\* C22, its second half: when every join_circle runs atomically, a circle
\* never holds more members than max_members, nor the same user_id twice.
C22_AtomicJoinsKeepInvariants ==
    circle # None =>
        /\ Len(circle.members) <= circle.max_members
        /\ \A i, j \in DOMAIN circle.members :
            circle.members[i].user_id = circle.members[j].user_id => i = j

\* C22, its first half: the state that two callers reach whose checks and
\* appends interleave, on a circle created with max_members >= 1: over
\* capacity, with a user_id twice
C22_RaceBreaksInvariants ==
    /\ circle # None
    /\ circle.max_members >= 1
    /\ Len(circle.members) > circle.max_members
    /\ \E i, j \in DOMAIN circle.members :
        i # j /\ circle.members[i].user_id = circle.members[j].user_id

\* the atomic half on the circles created with max_members >= 1
C22_AtomicJoinsKeepInvariantsWithRoom ==
    (circle # None /\ circle.max_members >= 1) => C22_AtomicJoinsKeepInvariants

\* a base notification to enhance
C23_Base ==
    BehavioralNotification("hydration_reminder", <<"generated">>, "medium",
                           [generated |-> TRUE], "generated")

\* C23: in every state reached from create_fitness_circle by join_circle and
\* update_member_progress alone, whatever circle_rank the profiles carry,
\* every member's rank is Follower, Member or Leader; hence
\* get_contextual_notification_with_circle appends the influencer line for
\* no profile: the message is the base's, or the base's and the streak line.
C23_NoInfluencerWithoutPromote ==
    circle # None =>
        /\ \A i \in DOMAIN circle.members :
            circle.members[i].rank \in {"follower", "member", "leader"}
        /\ \A u \in Users \cup {Stranger} :
            LET p == [fitness_goal |-> "strength", name |-> u, followers |-> <<"bo">>]
                out == WithCircleContext(C23_Base, circle, p)
            IN \/ out.message = <<"generated">>
               \/ /\ Len(out.message) = 3
                  /\ out.message[2] = "You're on a {}-day streak! Keep it up!"

\* C23's case: the second member, who joined below Leader, is a Leader with
\* a streak of 7 and 1000 points after an update_member_progress, and is
\* not raised further
C23_Witness ==
    /\ circle # None
    /\ last = [op |-> "update_member_progress", ret |-> TRUE]
    /\ Len(circle.members) = 2
    /\ circle.members[2].rank = "leader"
    /\ circle.members[2].current_streak = 7
    /\ circle.members[2].total_points = 1000
    /\ PromotedRank(circle.members[2]) = "leader"

\* C24: one update_member_progress call raises the member by at most one
\* rank, and with streak and points as they are the rank changes in the first
\* two calls at most: a Follower with current_streak >= 7 and total_points
\* >= 1000 is a Member after the first call and a Leader after the second,
\* and a third call leaves every rank as the second left it.
C24_OneTierPerUpdate ==
    [][(last'.op = "update_member_progress" /\ last'.ret = TRUE) =>
        \A id \in Users :
            (update_member_progress(id) /\ ~NotAMember(id)) =>
                \A i \in DOMAIN circle.members :
                    circle.members[i].user_id = id =>
                        LET m0 == circle.members[i]
                            m1 == circle'.members[i]
                            m2 == [m1 EXCEPT !.rank = PromotedRank(m1)]
                            m3 == [m2 EXCEPT !.rank = PromotedRank(m2)]
                        IN /\ RankOrder(m1.rank) - RankOrder(m0.rank) \in {0, 1}
                           /\ RankOrder(m2.rank) - RankOrder(m1.rank) \in {0, 1}
                           /\ m3.rank = m2.rank
                           /\ (/\ m0.rank = "follower"
                               /\ m0.current_streak >= 7
                               /\ m0.total_points >= 1000)
                               => m1.rank = "member" /\ m2.rank = "leader"
      ]_vars

\* C24's case: between the first call and the second: a Member with a
\* streak of 7 and 1000 points, whom the next call makes a Leader
C24_Witness ==
    /\ circle # None
    /\ last = [op |-> "update_member_progress", ret |-> TRUE]
    /\ Len(circle.members) = 2
    /\ circle.members[2].rank = "member"
    /\ circle.members[2].current_streak = 7
    /\ circle.members[2].total_points = 1000
    /\ circle.members[1].rank = "leader"

\* C25: after any calls of create_fitness_circle and join_circle, the
\* circle's id is in a profile's circles_joined exactly when the profile's
\* name is the user_id of a member of the circle, and it is there once: a
\* join that failed has added nothing.
C25_CirclesJoinedMatchesMembers ==
    \A u \in Users :
        /\ (\E k \in DOMAIN circles_joined[u] : circles_joined[u][k] = "circle-1")
            <=> (/\ circle # None
                 /\ \E i \in DOMAIN circle.members : circle.members[i].user_id = u)
        /\ \A k, l \in DOMAIN circles_joined[u] :
            circles_joined[u][k] = circles_joined[u][l] => k = l

\* C25's case: a join has failed on a full circle; the creator has the circle
\* in its list, the profile that was turned away has not
C25_Witness ==
    /\ circle # None
    /\ last = [op |-> "join_circle", ret |-> FALSE]
    /\ Len(circle.members) = 1
    /\ circle.max_members = 1
    /\ circles_joined[circle.members[1].user_id] = <<"circle-1">>
    /\ \E u \in Users : circles_joined[u] = << >>

====
